---- MODULE Spec2Model ----
(***************************************************************************)
(* goripr: IPv4 ranges mapped to reason strings, stored in redis as range  *)
(* boundaries.  The model follows the Client of src/unnamed/part_000 and   *)
(* the boundary type of src/unnamed/part_002.                              *)
(*                                                                         *)
(* The redis database is the pair (zset, hashes): the sorted set           *)
(* IPRangesKey (member = boundary ID, score = the IP as a number) and one  *)
(* hash per boundary ID with the fields low, high, reason.  A boundary's   *)
(* ID is the dotted form of its IP, which is one-to-one with its Int64     *)
(* value, so the model names members and hashes by the Int64 value.        *)
(*                                                                         *)
(* Addresses are a window 1..LastIP, counted from an address inside the     *)
(* IPv4 space, so that 0 and LastIP+1 are addresses as well.                *)
(***************************************************************************)
EXTENDS Integers, Sequences, FiniteSets, TLC

\* ---------------------------------------------------------------- bounds

\* the window of addresses the calls of a run name: 1 .. LastIP
LastIP == 4

\* the reason strings the calls of a run use.  The code only tests a
\* reason for being empty and two reasons for being equal, one side of the
\* range at a time, so two strings give every outcome of those tests.
Reasons == {"A", "B"}

\* how many Inserts a run of pairwise different reasons makes
MaxInserts == 4

\* the window of addresses, 1 .. LastUpdateIP, of the runs that mix Insert,
\* Remove, UpdateReasonOf, Find and Reset
LastUpdateIP == 3

\* how many goroutines call the operations of one Client at a time
NumGoroutines == 2

\* the reasons of such a run, in the order the Inserts use them
ReasonNames == <<"A", "B", "C", "D", "E", "F">>

IPs == 1..LastIP

\* scores of the sentinels: below and above every address of the window
\* (math.Inf(-1), math.Inf(+1))
PosInf == LastIP + 3

NegInf == -PosInf

\* every place a boundary can be stored at: the window, one address below
\* and above it (cuts), and the two sentinels
Addrs == 0..(LastIP + 1)

Keys == {NegInf, PosInf} \cup Addrs

\* zset, hashes: the redis database; call: the last call that returned;
\* mu: Client.mu, the sync.RWMutex; holding: for every goroutine the
\* operation it is in between acquiring mu and releasing it, or "idle";
\* pending: for every goroutine the locals of its operation between the
\* vicinity query and the batch (the arguments and what vicinity returned),
\* or Nil; lib: what netaddr.NewIPAddress, which is not part of this
\* repository, makes of an integer that is no IPv4 address: edges says
\* that the addresses 0 and LastIP + 1 of the model stand for 0.0.0.0 and
\* 255.255.255.255, panics that the library returns an error, below and
\* above are the addresses it returns for -1 and for 2^32 otherwise
VARIABLES zset, hashes, call, mu, holding, pending, lib

vars == <<zset, hashes, call, mu, holding, pending, lib>>

Goroutines == 1..NumGoroutines

\* ------------------------------------------------- boundary (part_002)

negInfBoundary == [Int64 |-> NegInf, LowerBound |-> FALSE, UpperBound |-> TRUE, Reason |-> "-inf"]

posInfBoundary == [Int64 |-> PosInf, LowerBound |-> TRUE, UpperBound |-> FALSE, Reason |-> "+inf"]

\* the float64 case returns the global sentinels for the infinite scores
newBoundary(ip, reason, lower, upper) ==
    IF ip = NegInf THEN negInfBoundary
    ELSE IF ip = PosInf THEN posInfBoundary
    ELSE IF lib.edges /\ ip < 0
    THEN [Int64 |-> lib.below, LowerBound |-> lower, UpperBound |-> upper, Reason |-> reason]
    ELSE IF lib.edges /\ ip > LastIP + 1
    THEN [Int64 |-> lib.above, LowerBound |-> lower, UpperBound |-> upper, Reason |-> reason]
    ELSE [Int64 |-> ip, LowerBound |-> lower, UpperBound |-> upper, Reason |-> reason]

Below(b) == newBoundary(b.Int64 - 1, b.Reason, FALSE, FALSE)

Above(b) == newBoundary(b.Int64 + 1, b.Reason, FALSE, FALSE)

IsSingleBound(b) == b.LowerBound # b.UpperBound

\* a faulty SetLowerBound that leaves the flags as they are
SetLowerBoundSkipped(b) == b

SetLowerBound(b) == [b EXCEPT !.LowerBound = TRUE, !.UpperBound = FALSE]

IsLowerBound(b) == IsSingleBound(b) /\ b.LowerBound

SetUpperBound(b) == [b EXCEPT !.LowerBound = FALSE, !.UpperBound = TRUE]

\* a faulty test that takes a single lower bound for an upper bound as well
IsUpperBoundOrLower(b) == IsSingleBound(b)

IsUpperBound(b) == IsSingleBound(b) /\ b.UpperBound

SetDoubleBound(b) == [b EXCEPT !.LowerBound = TRUE, !.UpperBound = TRUE]

\* panics on a boundary with neither flag; the callers test Unflagged
\* before they call it, so what is left is the plain conjunction
IsDoubleBound(b) == b.LowerBound /\ b.UpperBound

EqualIP(b, other) == b.Int64 = other.Int64

HasReason(b) == b.Reason # ""

EqualReason(b, other) == HasReason(b) /\ HasReason(other) /\ b.Reason = other.Reason

\* ---------------------------------------------------- redis commands

\* the client library writes a bool argument as the string "1" or "0"
BoolArg(v) == IF v THEN "1" ELSE "0"

Nil == [nil |-> TRUE]

\* boundary.Insert: ZADD + HMSET
InsertCmd(b) == [cmd |-> "Insert", b |-> b]

\* boundary.Update: HMSET only
UpdateCmd(b) == [cmd |-> "Update", b |-> b]

\* boundary.Remove: ZREM + DEL
RemoveCmd(b) == [cmd |-> "Remove", b |-> b]

HashOf(b) == [low |-> BoolArg(b.LowerBound), high |-> BoolArg(b.UpperBound), reason |-> b.Reason]

\* one queued command applied to the database db = [zset, hashes]
ApplyCmd(db, c) ==
    CASE c.cmd = "Insert" ->
            [zset |-> db.zset \cup {c.b.Int64},
             hashes |-> [db.hashes EXCEPT ![c.b.Int64] = HashOf(c.b)]]
      [] c.cmd = "Update" ->
            [zset |-> db.zset,
             hashes |-> [db.hashes EXCEPT ![c.b.Int64] = HashOf(c.b)]]
      [] c.cmd = "Remove" ->
            [zset |-> db.zset \ {c.b.Int64},
             hashes |-> [db.hashes EXCEPT ![c.b.Int64] = Nil]]

RECURSIVE Exec(_, _)
\* tx.Exec(): the queued commands run in the order they were queued
Exec(db, tx) ==
    IF tx = <<>> THEN db ELSE Exec(ApplyCmd(db, Head(tx)), Tail(tx))

\* ------------------------------------------------ sorting (sort.go)

\* byIP.Less
Less(a, b) ==
    IF a.Int64 = NegInf \/ b.Int64 = PosInf THEN TRUE
    ELSE IF a.Int64 = PosInf \/ b.Int64 = NegInf THEN FALSE
    ELSE a.Int64 < b.Int64

RECURSIVE InsertSorted(_, _)
InsertSorted(b, s) ==
    IF s = <<>> THEN <<b>>
    ELSE IF Less(b, Head(s)) THEN <<b>> \o s
    ELSE <<Head(s)>> \o InsertSorted(b, Tail(s))

RECURSIVE SortByIP(_)
\* sort.Sort(byIP(s))
SortByIP(s) ==
    IF s = <<>> THEN <<>> ELSE InsertSorted(Head(s), SortByIP(Tail(s)))

\* ------------------------------------------------ sorted-set queries

SetMin(S) == CHOOSE m \in S : \A x \in S : m <= x

SetMax(S) == CHOOSE m \in S : \A x \in S : m >= x

\* LIMIT 0 count; the client sends no LIMIT when Offset and Count are both 0
Limit(S, count) == IF count = 0 THEN Cardinality(S) ELSE count

RECURSIVE Ascending(_, _)
\* the n least members of S, ascending
Ascending(S, n) ==
    IF S = {} \/ n = 0 THEN <<>>
    ELSE <<SetMin(S)>> \o Ascending(S \ {SetMin(S)}, n - 1)

RECURSIVE Descending(_, _)
\* the n greatest members of S, descending
Descending(S, n) ==
    IF S = {} \/ n = 0 THEN <<>>
    ELSE <<SetMax(S)>> \o Descending(S \ {SetMax(S)}, n - 1)

\* ZRANGEBYSCORE key min max [LIMIT 0 count]: scores min..max, ascending
ZRangeByScore(z, min, max, count) ==
    Ascending({m \in z : min <= m /\ m <= max}, Limit({m \in z : min <= m /\ m <= max}, count))

\* ZREVRANGEBYSCORE key max min [LIMIT 0 count]: scores min..max, descending
ZRevRangeByScore(z, min, max, count) ==
    Descending({m \in z : min <= m /\ m <= max}, Limit({m \in z : min <= m /\ m <= max}, count))

\* ------------------------------------------------ vicinity (part_000)

\* the boundaries created from the scores of a range query, not yet filled
Unfilled(scores) == [i \in 1..Len(scores) |-> newBoundary(scores[i], "", FALSE, FALSE)]

\* HMGET id low high reason of a hash that does not exist yields three nils;
\* a nil reason is an "unexpected type" and fails the query
HydrateFails(h, s) == \E i \in 1..Len(s) : h[s[i].Int64] = Nil

\* low = t == "1", high = t == "1", reason = t
Hydrate(h, s) ==
    [i \in 1..Len(s) |->
        [Int64 |-> s[i].Int64,
         LowerBound |-> (h[s[i].Int64].low = "1"),
         UpperBound |-> (h[s[i].Int64].high = "1"),
         Reason |-> h[s[i].Int64].reason]]

\* the second batch of vicinity: every boundary filled from its hash
Filled(h, below, inside, above) ==
    IF HydrateFails(h, below \o inside \o above)
    THEN [below |-> <<>>, inside |-> <<>>, above |-> <<>>, err |-> "ErrNoResult"]
    ELSE [below  |-> Hydrate(h, below),
          inside |-> Hydrate(h, inside),
          above  |-> Hydrate(h, above),
          err    |-> "nil"]

\* a faulty vicinity that leaves below in the order of the reverse query
vicinityBelowUnsorted(db, low, high, num) ==
    Filled(db.hashes,
           Unfilled(ZRevRangeByScore(db.zset, NegInf, Below(low).Int64, num)),
           SortByIP(Unfilled(ZRangeByScore(db.zset, low.Int64, high.Int64, 0))),
           SortByIP(Unfilled(ZRangeByScore(db.zset, Above(high).Int64, PosInf, num))))

\* the three range queries of the first batch, sorted, then filled
vicinity(db, low, high, num) ==
    Filled(db.hashes,
           SortByIP(Unfilled(ZRevRangeByScore(db.zset, NegInf, Below(low).Int64, num))),
           SortByIP(Unfilled(ZRangeByScore(db.zset, low.Int64, high.Int64, 0))),
           SortByIP(Unfilled(ZRangeByScore(db.zset, Above(high).Int64, PosInf, num))))

\* ------------------------------------------------ parseRange (part_000)

\* a range string is either one IP ("ip"), or two IPs joined by "-" or a
\* CIDR ("range"; both give a lower-only low and an upper-only high)
RangeStrings ==
    [form : {"ip"}, lo : IPs, hi : IPs] \cup [form : {"range"}, lo : IPs, hi : IPs]

ValidRange(r) == IF r.form = "ip" THEN r.lo = r.hi ELSE r.lo <= r.hi

ValidRanges == {r \in RangeStrings : ValidRange(r)}

\* a faulty parseRange that takes every string for a range and does not
\* compare its two addresses
parseRangeUnchecked(r, reason) ==
    [low  |-> newBoundary(r.lo, reason, TRUE, FALSE),
     high |-> newBoundary(r.hi, reason, FALSE, TRUE),
     err  |-> "nil"]

\* a string of any other form ("bad") is no IP, no CIDR and no match of the
\* range expression
parseRange(r, reason) ==
    IF r.form = "ip"
    THEN [low  |-> newBoundary(r.lo, reason, TRUE, TRUE),
          high |-> newBoundary(r.lo, reason, TRUE, TRUE),
          err  |-> "nil"]
    ELSE IF r.form # "range" \/ r.lo > r.hi
    THEN [low |-> Nil, high |-> Nil, err |-> "ErrInvalidRange"]
    ELSE [low  |-> newBoundary(r.lo, reason, TRUE, FALSE),
          high |-> newBoundary(r.hi, reason, FALSE, TRUE),
          err  |-> "nil"]

\* ------------------------------------------------ Insert (part_000)

\* a faulty batch that leaves the boundaries inside the range in the store
RemoveInsideNone(inside) == <<>>

\* bnd.Remove(tx) for every boundary inside the range
RemoveInside(inside) == [i \in 1..Len(inside) |-> RemoveCmd(inside[i])]

\* a faulty belowCut that keeps the reason of low
InsertBelowCutOwnReason(low, belowNearest) ==
    SetUpperBound(Below(low))

\* belowCut := low.Below(); SetUpperBound; Reason = belowNearest.Reason
InsertBelowCut(low, belowNearest) ==
    [SetUpperBound(Below(low)) EXCEPT !.Reason = belowNearest.Reason]

\* a faulty aboveCut, flagged as Remove flags its aboveCut
InsertAboveCutUpper(high, aboveNearest) ==
    [SetUpperBound(Above(high)) EXCEPT !.Reason = aboveNearest.Reason]

\* aboveCut := high.Above(); SetLowerBound; Reason = aboveNearest.Reason
InsertAboveCut(high, aboveNearest) ==
    [SetLowerBound(Above(high)) EXCEPT !.Reason = aboveNearest.Reason]

\* the commands queued for the side below the range, and insertLowerBound
InsertBelow(belowNearest, belowCut, low) ==
    IF IsLowerBound(belowNearest)
    THEN IF ~EqualIP(belowNearest, belowCut)
         THEN IF ~EqualReason(belowNearest, low)
              THEN [tx |-> <<InsertCmd(belowCut)>>, insertLowerBound |-> TRUE]
              ELSE [tx |-> <<>>, insertLowerBound |-> FALSE]
         ELSE IF ~EqualReason(belowNearest, low)
              THEN [tx |-> <<InsertCmd(SetDoubleBound(belowNearest))>>, insertLowerBound |-> TRUE]
              ELSE [tx |-> <<>>, insertLowerBound |-> FALSE]
    ELSE IF IsDoubleBound(belowNearest) /\ EqualIP(belowNearest, belowCut) /\ EqualReason(belowNearest, low)
    THEN [tx |-> <<InsertCmd(SetLowerBound(belowNearest))>>, insertLowerBound |-> TRUE]
    ELSE [tx |-> <<>>, insertLowerBound |-> TRUE]

\* a faulty side above that never lets the upper endpoint be stored
InsertAboveNever(aboveNearest, aboveCut, high) ==
    [tx |-> <<>>, insertUpperBound |-> FALSE]

\* the commands queued for the side above the range, and insertUpperBound
InsertAbove(aboveNearest, aboveCut, high) ==
    IF IsUpperBound(aboveNearest)
    THEN IF ~EqualIP(aboveNearest, aboveCut)
         THEN IF ~EqualReason(aboveNearest, high)
              THEN [tx |-> <<InsertCmd(aboveCut)>>, insertUpperBound |-> TRUE]
              ELSE [tx |-> <<>>, insertUpperBound |-> FALSE]
         ELSE IF ~EqualReason(aboveNearest, high)
              THEN [tx |-> <<InsertCmd(SetDoubleBound(aboveNearest))>>, insertUpperBound |-> TRUE]
              ELSE [tx |-> <<>>, insertUpperBound |-> FALSE]
    ELSE IF IsDoubleBound(aboveNearest) /\ EqualIP(aboveNearest, aboveCut) /\ EqualReason(aboveNearest, high)
    THEN [tx |-> <<InsertCmd(SetUpperBound(aboveNearest))>>, insertUpperBound |-> TRUE]
    ELSE [tx |-> <<>>, insertUpperBound |-> TRUE]

\* faulty endpoints: high is never queued next to low
InsertEndpointsLowOnly(low, high, insertLowerBound, insertUpperBound) ==
    IF EqualIP(low, high) /\ insertLowerBound /\ insertUpperBound
    THEN <<InsertCmd(SetDoubleBound(low))>>
    ELSE IF insertLowerBound
    THEN <<InsertCmd(low)>>
    ELSE IF insertUpperBound
    THEN <<InsertCmd(high)>>
    ELSE <<>>

\* the new endpoints queued last
InsertEndpoints(low, high, insertLowerBound, insertUpperBound) ==
    IF EqualIP(low, high) /\ insertLowerBound /\ insertUpperBound
    THEN <<InsertCmd(SetDoubleBound(low))>>
    ELSE IF insertLowerBound /\ insertUpperBound
    THEN <<InsertCmd(low), InsertCmd(high)>>
    ELSE IF insertLowerBound
    THEN <<InsertCmd(low)>>
    ELSE IF insertUpperBound
    THEN <<InsertCmd(high)>>
    ELSE <<>>

\* IsDoubleBound panics ("invalid boundary state") on a boundary with
\* neither flag; Insert calls it on a nearest boundary that is no single
\* lower (upper) bound
Unflagged(b) == ~b.LowerBound /\ ~b.UpperBound

\* a faulty batch that queues the new endpoints before the removals
InsertQueueEndpointsFirst(inside, below, above, low, high) ==
    InsertEndpoints(low, high, below.insertLowerBound, above.insertUpperBound)
        \o RemoveInside(inside) \o below.tx \o above.tx

\* the batch of one Insert in queue order: the removals of the inside
\* boundaries, the side below, the side above, the new endpoints
InsertQueue(inside, below, above, low, high) ==
    RemoveInside(inside) \o below.tx \o above.tx
        \o InsertEndpoints(low, high, below.insertLowerBound, above.insertUpperBound)

InsertTx(inside, belowNearest, aboveNearest, low, high) ==
    InsertQueue(inside,
                InsertBelow(belowNearest, InsertBelowCut(low, belowNearest), low),
                InsertAbove(aboveNearest, InsertAboveCut(high, aboveNearest), high),
                low, high)

\* Client.Insert after the vicinity query v
InsertAfterVicinity(db, p, v) ==
    IF v.err # "nil" THEN [db |-> db, err |-> v.err]
    ELSE IF Len(v.below) < 1 \/ Len(v.above) < 1 THEN [db |-> db, err |-> "panic"]
    ELSE IF Unflagged(v.below[1]) \/ Unflagged(v.above[1]) THEN [db |-> db, err |-> "panic"]
    ELSE [db |-> Exec(db, InsertTx(v.inside, v.below[1], v.above[1], p.low, p.high)), err |-> "nil"]

\* Client.Insert after parseRange returned p
InsertParsed(db, p) ==
    IF p.err # "nil" THEN [db |-> db, err |-> p.err]
    ELSE InsertAfterVicinity(db, p, vicinity(db, p.low, p.high, 1))

\* Client.Insert on database db: the database afterwards and the error
InsertResult(db, ipRange, reason) == InsertParsed(db, parseRange(ipRange, reason))

\* ------------------------------------------------ Remove (part_000)

\* a faulty belowCut two addresses below low
RemoveBelowCutTwoBelow(low, belowNearest) ==
    [SetUpperBound(Below(Below(low))) EXCEPT !.Reason = belowNearest.Reason]

\* belowCut := low.Below(); SetUpperBound; Reason = belowNearest.Reason
RemoveBelowCut(low, belowNearest) ==
    [SetUpperBound(Below(low)) EXCEPT !.Reason = belowNearest.Reason]

\* aboveCut := high.Above(); SetUpperBound; Reason = aboveNearest.Reason
RemoveAboveCut(high, aboveNearest) ==
    [SetUpperBound(Above(high)) EXCEPT !.Reason = aboveNearest.Reason]


\* a faulty side below that writes the cut record even one address below
RemoveBelowAlwaysCut(belowNearest, belowCut) ==
    IF IsLowerBound(belowNearest) THEN <<InsertCmd(belowCut)>> ELSE <<>>

\* the commands queued for the side below the range
RemoveBelow(belowNearest, belowCut) ==
    IF IsLowerBound(belowNearest)
    THEN IF ~EqualIP(belowNearest, belowCut)
         THEN <<InsertCmd(belowCut)>>
         ELSE <<InsertCmd(SetDoubleBound(belowNearest))>>
    ELSE <<>>

\* a faulty side above that turns the upper bound at H+1 into a lower bound
RemoveAboveTurnsLower(aboveNearest, aboveCut) ==
    IF IsUpperBound(aboveNearest)
    THEN IF ~EqualIP(aboveNearest, aboveCut)
         THEN <<InsertCmd(aboveCut)>>
         ELSE <<InsertCmd(SetLowerBound(aboveNearest))>>
    ELSE <<>>

\* the commands queued for the side above the range
RemoveAbove(aboveNearest, aboveCut) ==
    IF IsUpperBound(aboveNearest)
    THEN IF ~EqualIP(aboveNearest, aboveCut)
         THEN <<InsertCmd(aboveCut)>>
         ELSE <<InsertCmd(SetDoubleBound(aboveNearest))>>
    ELSE <<>>

\* the batch of one Remove in queue order
RemoveTx(inside, belowNearest, aboveNearest, low, high) ==
    RemoveInside(inside)
        \o RemoveBelow(belowNearest, RemoveBelowCut(low, belowNearest))
        \o RemoveAbove(aboveNearest, RemoveAboveCut(high, aboveNearest))

\* Client.Remove after the vicinity query v; below[0] of an empty list panics
RemoveAfterVicinity(db, p, v) ==
    IF v.err # "nil" THEN [db |-> db, err |-> v.err]
    ELSE IF Len(v.below) < 1 \/ Len(v.above) < 1 THEN [db |-> db, err |-> "panic"]
    ELSE [db |-> Exec(db, RemoveTx(v.inside, v.below[1], v.above[1], p.low, p.high)), err |-> "nil"]

\* Client.Remove after parseRange returned p
RemoveParsed(db, p) ==
    IF p.err # "nil" THEN [db |-> db, err |-> p.err]
    ELSE RemoveAfterVicinity(db, p, vicinity(db, p.low, p.high, 1))

\* Client.Remove on database db: the database afterwards and the error
RemoveResult(db, ipRange) == RemoveParsed(db, parseRange(ipRange, ""))

\* ------------------------------------------------ Find (part_000)

\* a faulty Find that does not look at the boundary stored at ip itself
FindBetweenOnly(v) ==
    IF v.err # "nil" THEN [reason |-> "", err |-> v.err]
    ELSE IF Len(v.below) < 1 \/ Len(v.above) < 1 THEN [reason |-> "", err |-> "panic"]
    ELSE IF IsLowerBound(v.below[1]) /\ IsUpperBound(v.above[1]) /\ EqualReason(v.below[1], v.above[1])
    THEN [reason |-> v.below[1].Reason, err |-> "nil"]
    ELSE [reason |-> "", err |-> "ErrIPNotFound"]

\* Client.Find after the vicinity query v
FindAfterVicinity(v) ==
    IF v.err # "nil" THEN [reason |-> "", err |-> v.err]
    ELSE IF Len(v.inside) = 1 THEN [reason |-> v.inside[1].Reason, err |-> "nil"]
    ELSE IF Len(v.below) < 1 \/ Len(v.above) < 1 THEN [reason |-> "", err |-> "panic"]
    ELSE IF IsLowerBound(v.below[1]) /\ IsUpperBound(v.above[1])
    THEN IF EqualReason(v.below[1], v.above[1])
         THEN [reason |-> v.below[1].Reason, err |-> "nil"]
         ELSE [reason |-> "", err |-> "panic"]
    ELSE [reason |-> "", err |-> "ErrIPNotFound"]

FindBoundary(db, bnd) == FindAfterVicinity(vicinity(db, bnd, bnd, 1))

\* Client.Find: the reason and the error
Find(db, ip) == FindBoundary(db, newBoundary(ip, "", TRUE, TRUE))

\* ------------------------------------------------ UpdateReasonOf (part_000)

\* the functions fn a caller passes: one that ignores the old reason and
\* one that depends on it
UpdateFuncs == {"always B", "A to B, else A"}

\* fn(oldReason)
ApplyFn(fn, oldReason) ==
    IF fn = "always B" THEN "B"
    ELSE IF oldReason = "A" THEN "B" ELSE "A"

\* found.Reason = fn(found.Reason)
UpdatedFound(found, fn) == [found EXCEPT !.Reason = ApplyFn(fn, found.Reason)]

\* the branch len(inside) == 1: found is the boundary at ip, its reason
\* already recomputed
UpdateInside(db, found, belowNearest, aboveNearest, fn) ==
    IF Unflagged(found) THEN [db |-> db, err |-> "panic"]
    ELSE IF IsDoubleBound(found)
    THEN [db |-> Exec(db, <<UpdateCmd(found)>>), err |-> "nil"]
    ELSE IF IsLowerBound(found)
    THEN IF IsUpperBound(aboveNearest)
         THEN [db |-> Exec(db, <<UpdateCmd(found),
                                 UpdateCmd([aboveNearest EXCEPT !.Reason = ApplyFn(fn, aboveNearest.Reason)])>>),
               err |-> "nil"]
         ELSE [db |-> db, err |-> "panic"]
    ELSE IF IsLowerBound(belowNearest)
         THEN [db |-> Exec(db, <<UpdateCmd([belowNearest EXCEPT !.Reason = ApplyFn(fn, aboveNearest.Reason)]),
                                 InsertCmd(found)>>),
               err |-> "nil"]
         ELSE [db |-> db, err |-> "panic"]

\* a faulty branch that rewrites the neighbours whatever their flags
UpdateBetweenAnyFlags(db, belowNearest, aboveNearest, fn) ==
    IF EqualReason(belowNearest, aboveNearest)
    THEN [db |-> Exec(db, <<UpdateCmd([belowNearest EXCEPT !.Reason = ApplyFn(fn, belowNearest.Reason)]),
                            UpdateCmd([aboveNearest EXCEPT !.Reason = ApplyFn(fn, aboveNearest.Reason)])>>),
          err |-> "nil"]
    ELSE [db |-> db, err |-> "ErrIPNotFound"]

\* the branch len(inside) == 0
UpdateBetween(db, belowNearest, aboveNearest, fn) ==
    IF IsLowerBound(belowNearest) /\ IsUpperBound(aboveNearest)
    THEN IF EqualReason(belowNearest, aboveNearest)
         THEN [db |-> Exec(db, <<UpdateCmd([belowNearest EXCEPT !.Reason = ApplyFn(fn, belowNearest.Reason)]),
                                 UpdateCmd([aboveNearest EXCEPT !.Reason = ApplyFn(fn, aboveNearest.Reason)])>>),
               err |-> "nil"]
         ELSE [db |-> db, err |-> "panic"]
    ELSE [db |-> db, err |-> "ErrIPNotFound"]

\* Client.UpdateReasonOf after the vicinity query v; below[0] and above[0]
\* of an empty list panic
UpdateAfterVicinity(db, v, fn) ==
    IF v.err # "nil" THEN [db |-> db, err |-> v.err]
    ELSE IF Len(v.below) < 1 \/ Len(v.above) < 1 THEN [db |-> db, err |-> "panic"]
    ELSE IF Len(v.inside) = 1
    THEN UpdateInside(db, UpdatedFound(v.inside[1], fn), v.below[1], v.above[1], fn)
    ELSE UpdateBetween(db, v.below[1], v.above[1], fn)

UpdateBoundary(db, bnd, fn) == UpdateAfterVicinity(db, vicinity(db, bnd, bnd, 1), fn)

\* Client.UpdateReasonOf on database db: the database afterwards and the error
UpdateResult(db, ip, fn) == UpdateBoundary(db, newBoundary(ip, "", TRUE, TRUE), fn)

\* ------------------------------------------------ init, Reset (part_000)

\* FLUSHDB
FlushDB == [zset |-> {}, hashes |-> [k \in Keys |-> Nil]]

\* a faulty init that empties the database before it writes the sentinels
initFlushed(db) ==
    Exec([zset |-> {}, hashes |-> [k \in Keys |-> Nil]],
         <<InsertCmd(negInfBoundary), InsertCmd(posInfBoundary)>>)

\* Client.init: ZADD of both sentinels, HMSET of their hashes, one batch
init(db) ==
    Exec(db, <<InsertCmd(negInfBoundary), InsertCmd(posInfBoundary)>>)

\* ------------------------------------------------ all (part_000)

\* low = t == "1" for a string, false otherwise; reason = "" for no string
AllFilled(h, s) ==
    [i \in 1..Len(s) |->
        IF h[s[i].Int64] = Nil
        THEN [Int64 |-> s[i].Int64, LowerBound |-> FALSE, UpperBound |-> FALSE, Reason |-> ""]
        ELSE [Int64 |-> s[i].Int64,
              LowerBound |-> (h[s[i].Int64].low = "1"),
              UpperBound |-> (h[s[i].Int64].high = "1"),
              Reason |-> h[s[i].Int64].reason]]

\* Client.all: every boundary of the database, sentinels included, ascending
all(db) == SortByIP(AllFilled(db.hashes, Unfilled(ZRangeByScore(db.zset, NegInf, PosInf, 0))))

\* ------------------------------------------------ the state machine

rdb == [zset |-> zset, hashes |-> hashes]

\* what call records of a call that returned
Called(op, ipRange, reason, err) == [op |-> op, ipRange |-> ipRange, reason |-> reason, err |-> err]

NoRange == [form |-> "", lo |-> 0, hi |-> 0]

\* the zero value of sync.RWMutex: no writer, no reader
Unlocked == [writer |-> FALSE, readers |-> 0]

\* no goroutine is inside an operation
AllIdle ==
    /\ mu = Unlocked
    /\ holding = [g \in Goroutines |-> "idle"]
    /\ pending = [g \in Goroutines |-> Nil]

\* a call made while no other call runs acquires mu and releases it within
\* the step
Alone == UNCHANGED <<mu, holding, pending, lib>>

\* the window of the calls lies inside the IPv4 space: no call meets
\* 0.0.0.0 or 255.255.255.255
NoEdges == [edges |-> FALSE, panics |-> FALSE, below |-> 0, above |-> 0]

\* NewClient on an empty database
Init ==
    /\ zset = init(FlushDB).zset
    /\ hashes = init(FlushDB).hashes
    /\ call = Called("NewClient", NoRange, "", "nil")
    /\ AllIdle
    /\ lib = NoEdges

Reset ==
    /\ zset' = init(FlushDB).zset
    /\ hashes' = init(FlushDB).hashes
    /\ call' = Called("Reset", NoRange, "", "nil")
    /\ Alone

Insert(ipRange, reason) ==
    \E res \in {InsertResult(rdb, ipRange, reason)} :
        /\ zset' = res.db.zset
        /\ hashes' = res.db.hashes
        /\ call' = Called("Insert", ipRange, reason, res.err)
        /\ Alone

Remove(ipRange) ==
    \E res \in {RemoveResult(rdb, ipRange)} :
        /\ zset' = res.db.zset
        /\ hashes' = res.db.hashes
        /\ call' = Called("Remove", ipRange, "", res.err)
        /\ Alone

Next ==
    \/ \E r \in ValidRanges, x \in Reasons : Insert(r, x)
    \/ \E r \in ValidRanges : Remove(r)
    \/ Reset

Spec == Init /\ [][Next]_vars

\* ------------------------------------------------ consistent (redis_test.go)

LowerBoundState == 0

UpperBoundState == 1

\* foundLow and foundHigh: the range's first address is stored with its lower
\* flag and its last address with its upper flag
FoundInserted(attributes, ipRange) ==
    /\ \E i \in 1..Len(attributes) :
            attributes[i].Int64 = ipRange.lo /\ attributes[i].LowerBound
    /\ \E i \in 1..Len(attributes) :
            attributes[i].Int64 = ipRange.hi /\ attributes[i].UpperBound

RECURSIVE Walk(_, _, _, _)
\* the loop over the attributes from index idx on, with cnt and state
Walk(attributes, idx, cnt, state) ==
    IF idx > Len(attributes) THEN state = LowerBoundState
    ELSE IF attributes[idx].LowerBound /\ attributes[idx].UpperBound
    THEN state = UpperBoundState /\ Walk(attributes, idx + 1, cnt + 2, state)
    ELSE IF attributes[idx].LowerBound
    THEN state = UpperBoundState /\ Walk(attributes, idx + 1, cnt + 1, (cnt + 1) % 2)
    ELSE IF attributes[idx].UpperBound
    THEN /\ state = LowerBoundState
         /\ ~(idx > 1 /\ attributes[idx].Reason # attributes[idx - 1].Reason)
         /\ Walk(attributes, idx + 1, cnt + 1, (cnt + 1) % 2)
    ELSE Walk(attributes, idx + 1, cnt, state)

\* consistent(rdb, t, ipRange, iteration) of the tests, for a range ipRange
consistent(db, ipRange) ==
    /\ FoundInserted(all(db), ipRange)
    /\ Walk(all(db), 1, 0, LowerBoundState)

\* ------------------------------------------------ runs of different reasons

\* the number of Inserts made so far in a run whose n-th Insert uses the
\* n-th reason of ReasonNames: the last call's reason tells it
Inserted ==
    IF call.op = "Insert" THEN CHOOSE n \in 1..Len(ReasonNames) : ReasonNames[n] = call.reason ELSE 0

\* an Insert with a reason no earlier Insert used
InsertDistinct ==
    /\ Inserted < MaxInserts
    /\ \E r \in ValidRanges : Insert(r, ReasonNames[Inserted + 1])

NextDistinct == InsertDistinct \/ Reset

\* every order of Inserts with pairwise different reasons on a Reset engine
SpecDistinct == Init /\ [][NextDistinct]_vars

\* ------------------------------------------------ every operation of a Client

\* the addresses and the ranges the calls of these runs name
UpdateIPs == 1..LastUpdateIP

UpdateRanges == {r \in ValidRanges : r.hi <= LastUpdateIP}

\* the range string of one address
OneIP(ip) == [form |-> "ip", lo |-> ip, hi |-> ip]

\* Client.UpdateReasonOf(ip, fn); call records fn in the place of a reason
UpdateReasonOf(ip, fn) ==
    \E res \in {UpdateResult(rdb, ip, fn)} :
        /\ zset' = res.db.zset
        /\ hashes' = res.db.hashes
        /\ call' = Called("UpdateReasonOf", OneIP(ip), fn, res.err)
        /\ Alone

\* Client.Find(ip): the store stays, call records the reason returned
FindCall(ip) ==
    \E res \in {Find(rdb, ip)} :
        /\ UNCHANGED <<zset, hashes>>
        /\ call' = Called("Find", OneIP(ip), res.reason, res.err)
        /\ Alone

NextAll ==
    \/ \E r \in UpdateRanges, x \in Reasons : Insert(r, x)
    \/ \E r \in UpdateRanges : Remove(r)
    \/ \E ip \in UpdateIPs, fn \in UpdateFuncs : UpdateReasonOf(ip, fn)
    \/ \E ip \in UpdateIPs : FindCall(ip)
    \/ Reset

\* a constructed Client under Insert, Remove, UpdateReasonOf, Find and Reset
SpecAll == Init /\ [][NextAll]_vars

\* ------------------------------------------------ Inserts of disjoint ranges

\* an Insert whose range has no address in common with a range inserted
\* since the last Reset: no address of the range is found
InsertDisjoint ==
    \E r \in ValidRanges, x \in Reasons :
        /\ \A ip \in r.lo .. r.hi : Find(rdb, ip).err = "ErrIPNotFound"
        /\ Insert(r, x)

NextDisjoint == InsertDisjoint \/ Reset

\* every order of Inserts with pairwise disjoint ranges on a Reset engine
SpecDisjoint == Init /\ [][NextDisjoint]_vars

\* ------------------------------------------------ Find on any store

\* what the hash of a stored address can hold: flags, not both unset, and a
\* reason; Nil for an address that is not stored
StoredHashes ==
    {Nil} \cup {HashOf(newBoundary(1, x, flags[1], flags[2])) :
                    x \in Reasons, flags \in {<<TRUE, FALSE>>, <<FALSE, TRUE>>, <<TRUE, TRUE>>}}

\* the database that holds the sentinels and the hashes h of the window
StoreOf(h) ==
    [zset |-> init(FlushDB).zset \cup {ip \in IPs : h[ip] # Nil},
     hashes |-> [k \in Keys |-> IF k \in IPs THEN h[k] ELSE init(FlushDB).hashes[k]]]

\* a Client on a database that holds the sentinels and any boundaries
InitStores ==
    /\ lib = NoEdges
    /\ \E h \in [IPs -> StoredHashes] :
        /\ zset = StoreOf(h).zset
        /\ hashes = StoreOf(h).hashes
        /\ call = Called("NewClient", NoRange, "", "nil")
        /\ AllIdle

NextStores == \E ip \in IPs : FindCall(ip)

\* Find on every database of the window, consistent or not
SpecStores == InitStores /\ [][NextStores]_vars

\* ------------------------------------------------ goroutines on one Client

\* the operations of a Client that interact with the store
LockOps == {"Find", "Insert", "Remove", "Reset", "Flush", "UpdateReasonOf"}

\* the ranges, the address and the reason the concurrent calls name
LockRanges == {OneIP(1), [form |-> "range", lo |-> 1, hi |-> 2]}

LockIPs == {1, 2}

LockReason == "A"

\* a faulty operation: every one takes the shared side
LockSideAlwaysShared(op) == "RLock"

\* a faulty Remove that takes the shared side as Find does
LockSideRemoveShared(op) == IF op \in {"Find", "Remove"} THEN "RLock" ELSE "Lock"

\* the first statement of every operation: Find calls c.mu.RLock(), every
\* other operation c.mu.Lock()
LockSide(op) == IF op = "Find" THEN "RLock" ELSE "Lock"

\* sync.RWMutex: RLock returns when no writer holds mu, Lock when neither a
\* writer nor a reader does
CanAcquire(side) ==
    IF side = "RLock"
    THEN ~mu.writer
    ELSE ~mu.writer /\ mu.readers = 0

Acquired(side) ==
    IF side = "RLock"
    THEN [mu EXCEPT !.readers = @ + 1]
    ELSE [mu EXCEPT !.writer = TRUE]

\* RUnlock and Unlock
Released(side) ==
    IF side = "RLock"
    THEN [mu EXCEPT !.readers = @ - 1]
    ELSE [mu EXCEPT !.writer = FALSE]

\* goroutine g enters operation op and returns from c.mu.RLock() or
\* c.mu.Lock()
Acquire(g, op) ==
    /\ holding[g] = "idle"
    /\ CanAcquire(LockSide(op))
    /\ mu' = Acquired(LockSide(op))
    /\ holding' = [holding EXCEPT ![g] = op]
    /\ UNCHANGED <<zset, hashes, call, pending, lib>>

Outcome(db, op, ipRange, reason, err) == [db |-> db, call |-> Called(op, ipRange, reason, err)]

\* what operation op can do to the database db, for every input of the
\* concurrent calls, and what it returns
Outcomes(op, db) ==
    CASE op = "Find" ->
            {Outcome(db, op, OneIP(ip), Find(db, ip).reason, Find(db, ip).err) : ip \in LockIPs}
      [] op = "Insert" ->
            {Outcome(InsertResult(db, r, LockReason).db, op, r, LockReason,
                     InsertResult(db, r, LockReason).err) : r \in LockRanges}
      [] op = "Remove" ->
            {Outcome(RemoveResult(db, r).db, op, r, "", RemoveResult(db, r).err) : r \in LockRanges}
      [] op = "UpdateReasonOf" ->
            {Outcome(UpdateResult(db, ip, fn).db, op, OneIP(ip), fn, UpdateResult(db, ip, fn).err) :
                ip \in LockIPs, fn \in UpdateFuncs}
      [] op = "Reset" -> {Outcome(init(FlushDB), op, NoRange, "", "nil")}
      [] op = "Flush" -> {Outcome(FlushDB, op, NoRange, "", "nil")}

\* goroutine g does the store interaction of its operation and returns: the
\* deferred c.mu.RUnlock() or c.mu.Unlock() runs
Return(g) ==
    /\ holding[g] # "idle"
    /\ \E res \in Outcomes(holding[g], rdb) :
        /\ zset' = res.db.zset
        /\ hashes' = res.db.hashes
        /\ call' = res.call
    /\ mu' = Released(LockSide(holding[g]))
    /\ holding' = [holding EXCEPT ![g] = "idle"]
    /\ UNCHANGED <<pending, lib>>

NextLock ==
    \/ \E g \in Goroutines, op \in LockOps : Acquire(g, op)
    \/ \E g \in Goroutines : Return(g)

\* goroutines that call the operations of one constructed Client
SpecLock == Init /\ [][NextLock]_vars

\* ------------------------------------------------ waiting for the lock

\* a faulty operation that unlocks before its successful return only
UnlockOnSuccess(side, err) == IF err = "nil" THEN Released(side) ELSE mu

\* defer c.mu.Unlock() / defer c.mu.RUnlock(): runs on every return and on
\* a panic
Deferred(side, err) == Released(side)

\* the goroutines blocked in c.mu.Lock() (side "Lock") or c.mu.RLock()
Waiting(side) == {g \in Goroutines : pending[g] # Nil /\ LockSide(pending[g].op) = side}

\* how operation op can return without having changed the store: an input
\* error (not Reset, Flush) or an error of the store in its first round trip
ErrorOutcomes(op, db) ==
    {Outcome(db, op, NoRange, "", err) :
        err \in CASE op \in {"Insert", "Remove"} -> {"ErrInvalidRange", "store"}
                 [] op \in {"Find", "UpdateReasonOf"} -> {"ErrInvalidIP", "store"}
                 [] OTHER -> {"store"}}

\* goroutine g calls operation op, whose first statement returns at once
\* if the lock is free and blocks otherwise; RLock also blocks while a
\* Lock call is blocked (sync.RWMutex)
Invoke(g, op) ==
    /\ holding[g] = "idle" /\ pending[g] = Nil
    /\ IF CanAcquire(LockSide(op)) /\ (LockSide(op) = "RLock" => Waiting("Lock") = {})
       THEN /\ mu' = Acquired(LockSide(op))
            /\ holding' = [holding EXCEPT ![g] = op]
            /\ UNCHANGED pending
       ELSE /\ pending' = [pending EXCEPT ![g] = [op |-> op]]
            /\ UNCHANGED <<mu, holding>>
    /\ UNCHANGED <<zset, hashes, call, lib>>

\* the blocked c.mu.Lock() of goroutine g returns
Grant(g) ==
    /\ g \in Waiting("Lock")
    /\ CanAcquire("Lock")
    /\ mu' = Acquired("Lock")
    /\ holding' = [holding EXCEPT ![g] = pending[g].op]
    /\ pending' = [pending EXCEPT ![g] = Nil]
    /\ UNCHANGED <<zset, hashes, call, lib>>

\* goroutine g leaves its operation on one of its exit paths and the
\* deferred unlock runs; Unlock of the writer lets every blocked RLock
\* return. The calls name the address 1 and the update function that
\* depends on the old reason; call records the operation and its error
Complete(g) ==
    /\ holding[g] # "idle"
    /\ \E res \in {o \in Outcomes(holding[g], rdb) : o.call.ipRange.hi <= 1 /\ o.call.reason # "always B"}
                    \cup ErrorOutcomes(holding[g], rdb) :
        /\ zset' = res.db.zset
        /\ hashes' = res.db.hashes
        /\ call' = Called(holding[g], NoRange, "", res.call.err)
        /\ \E m \in {Deferred(LockSide(holding[g]), res.call.err)} :
            \E admitted \in {IF LockSide(holding[g]) = "Lock" /\ ~m.writer
                              THEN Waiting("RLock") ELSE {}} :
                /\ mu' = [m EXCEPT !.readers = @ + Cardinality(admitted)]
                /\ holding' = [h \in Goroutines |->
                                    IF h = g THEN "idle"
                                    ELSE IF h \in admitted THEN pending[h].op
                                    ELSE holding[h]]
                /\ pending' = [h \in Goroutines |-> IF h \in admitted THEN Nil ELSE pending[h]]
    /\ UNCHANGED lib

NextLive ==
    \/ \E g \in Goroutines, op \in LockOps : Invoke(g, op)
    \/ \E g \in Goroutines : Grant(g)
    \/ \E g \in Goroutines : Complete(g)

\* WF_vars(Complete(g)) written out: Complete(g) is enabled exactly when g
\* is inside an operation, since ErrorOutcomes is never empty, and every
\* Complete(g) step leaves g idle
CompletesFairly(g) == []<>(holding[g] = "idle")

\* goroutines that call the operations of one Client whose store answers
\* every call: an operation that holds the lock completes, and a blocked
\* Lock call is not passed over for ever (sync.Mutex hands the lock to a
\* goroutine that has waited long)
SpecLive ==
    /\ Init /\ [][NextLive]_vars
    /\ \A g \in Goroutines : CompletesFairly(g) /\ SF_vars(Grant(g))

\* ------------------------------------------------ the two round trips of a call

\* the operations that query the vicinity and then run a batch
QueryOps == {"Insert", "Remove", "UpdateReasonOf"}

\* the calls of one operation: its range, and its reason (Insert) or fn
\* (UpdateReasonOf)
StepCalls(op) ==
    CASE op = "Insert" -> {[ipRange |-> r, reason |-> x] : r \in LockRanges, x \in Reasons}
      [] op = "Remove" -> {[ipRange |-> r, reason |-> ""] : r \in LockRanges}
      [] op = "UpdateReasonOf" -> {[ipRange |-> OneIP(ip), reason |-> fn] : ip \in LockIPs, fn \in UpdateFuncs}

\* the call c of operation op on database db, run alone: the database
\* afterwards and the error
Whole(op, c, db) ==
    CASE op = "Insert" -> InsertResult(db, c.ipRange, c.reason)
      [] op = "Remove" -> RemoveResult(db, c.ipRange)
      [] op = "UpdateReasonOf" -> UpdateResult(db, c.ipRange.lo, c.reason)

\* parseRange of the call c; UpdateReasonOf makes its boundary itself
Parsed(op, c) ==
    CASE op = "Insert" -> parseRange(c.ipRange, c.reason)
      [] op = "Remove" -> parseRange(c.ipRange, "")
      [] op = "UpdateReasonOf" ->
            [low  |-> newBoundary(c.ipRange.lo, "", TRUE, TRUE),
             high |-> newBoundary(c.ipRange.lo, "", TRUE, TRUE),
             err  |-> "nil"]

\* the locals of operation op after c.vicinity returned on database db
Queried(op, c, db) ==
    [op |-> op, c |-> c, p |-> Parsed(op, c),
     v |-> vicinity(db, Parsed(op, c).low, Parsed(op, c).high, 1)]

\* the first round trip of goroutine g which holds mu: c.vicinity
Query(g) ==
    /\ holding[g] \in QueryOps
    /\ pending[g] = Nil
    /\ \E c \in StepCalls(holding[g]) :
            pending' = [pending EXCEPT ![g] = Queried(holding[g], c, rdb)]
    /\ UNCHANGED <<zset, hashes, call, mu, holding, lib>>

\* the rest of the operation with locals q on what the database is by now
AfterQuery(q, db) ==
    CASE q.op = "Insert" -> InsertAfterVicinity(db, q.p, q.v)
      [] q.op = "Remove" -> RemoveAfterVicinity(db, q.p, q.v)
      [] q.op = "UpdateReasonOf" -> UpdateAfterVicinity(db, q.v, q.c.reason)

\* the second round trip of goroutine g: tx.Exec(), then the return with
\* the deferred c.mu.Unlock()
Commit(g) ==
    /\ pending[g] # Nil
    /\ \E res \in {AfterQuery(pending[g], rdb)} :
        /\ zset' = res.db.zset
        /\ hashes' = res.db.hashes
        /\ call' = Called(pending[g].op, pending[g].c.ipRange, pending[g].c.reason, res.err)
    /\ mu' = Released(LockSide(holding[g]))
    /\ holding' = [holding EXCEPT ![g] = "idle"]
    /\ pending' = [pending EXCEPT ![g] = Nil]
    /\ UNCHANGED lib

\* Find and Reset of goroutine g
ReturnOther(g) ==
    /\ holding[g] \in {"Find", "Reset"}
    /\ Return(g)

NextSteps ==
    \/ \E g \in Goroutines, op \in QueryOps \cup {"Find", "Reset"} : Acquire(g, op)
    \/ \E g \in Goroutines : Query(g)
    \/ \E g \in Goroutines : Commit(g)
    \/ \E g \in Goroutines : ReturnOther(g)

\* goroutines on one Client, the vicinity query and the batch of a call
\* being two steps
SpecSteps == Init /\ [][NextSteps]_vars

\* ------------------------------------------------ a reader on a second Client

\* the first batch of vicinity: the scores of the three range queries, as
\* boundaries not yet filled
VicinityScores(z, low, high, num) ==
    [below  |-> SortByIP(Unfilled(ZRevRangeByScore(z, NegInf, Below(low).Int64, num))),
     inside |-> SortByIP(Unfilled(ZRangeByScore(z, low.Int64, high.Int64, 0))),
     above  |-> SortByIP(Unfilled(ZRangeByScore(z, Above(high).Int64, PosInf, num)))]

\* the reader is goroutine 1, on a Client of its own: it takes the mu of
\* that Client, which no writer takes
Reader == 1

\* Find(ip) of the reader up to the first batch of its vicinity query.
\* before and written are not locals of Find: before is what Find returns
\* on the database the first batch read, written says that the writer has
\* run a batch since
ReaderScores(ip) ==
    /\ pending[Reader] = Nil
    /\ pending' = [pending EXCEPT ![Reader] =
            [ip |-> ip,
             scores |-> VicinityScores(zset, newBoundary(ip, "", TRUE, TRUE), newBoundary(ip, "", TRUE, TRUE), 1),
             before |-> Find(rdb, ip),
             written |-> FALSE]]
    /\ UNCHANGED <<zset, hashes, call, mu, holding, lib>>

\* the second batch of the reader's vicinity query and the rest of Find
ReaderFills ==
    /\ pending[Reader] # Nil
    /\ \E res \in {FindAfterVicinity(Filled(hashes, pending[Reader].scores.below,
                                              pending[Reader].scores.inside,
                                              pending[Reader].scores.above))} :
            call' = Called("Find", OneIP(pending[Reader].ip), res.reason, res.err)
    /\ pending' = [pending EXCEPT ![Reader] = Nil]
    /\ UNCHANGED <<zset, hashes, mu, holding, lib>>

\* an Insert or a Remove of the writer, the only one between the two
\* batches of a Find of the reader
Writes(op, c) ==
    /\ pending[Reader] # Nil => ~pending[Reader].written
    /\ \E res \in {Whole(op, c, rdb)} :
        /\ zset' = res.db.zset
        /\ hashes' = res.db.hashes
        /\ call' = Called(op, c.ipRange, c.reason, res.err)
    /\ pending' = IF pending[Reader] = Nil THEN pending
                  ELSE [pending EXCEPT ![Reader].written = TRUE]
    /\ UNCHANGED <<mu, holding, lib>>

NextReader ==
    \/ \E ip \in LockIPs : ReaderScores(ip)
    \/ ReaderFills
    \/ \E op \in {"Insert", "Remove"} : \E c \in StepCalls(op) : Writes(op, c)

\* one writer and, on a second Client of the same store, one reader
SpecReader == Init /\ [][NextReader]_vars

\* ------------------------------------------------ a store that fails

\* a faulty batch that runs although tx.Exec() returns an error
ExecFailedCommitted(db, committed) == committed

\* tx.Exec() of a TxPipeline that returns an error: MULTI ... EXEC ran none
\* of the queued commands; committed is the database had they run
ExecFailed(db, committed) == db

\* the call c of operation op on database db when the store fails at the
\* round trip at: "scores" and "hashes" are the two batches of vicinity,
\* "exec" is the batch of the operation, "none" is a store that works.
\* vicinity wraps the error of the store in ErrNoResult, the operation
\* returns the error of tx.Exec() as it is; an operation that returns or
\* panics before a round trip does not meet its failure
Failing(op, c, db, at) ==
    IF Parsed(op, c).err # "nil" THEN [db |-> db, err |-> Parsed(op, c).err]
    ELSE IF at \in {"scores", "hashes"} THEN [db |-> db, err |-> "ErrNoResult : store"]
    ELSE IF at = "exec" /\ Whole(op, c, db).err = "nil"
    THEN [db |-> ExecFailed(db, Whole(op, c, db).db), err |-> "store"]
    ELSE Whole(op, c, db)

\* one call of Insert, Remove or UpdateReasonOf
CallFailing(op, c, at) ==
    /\ \E res \in {Failing(op, c, rdb, at)} :
        /\ zset' = res.db.zset
        /\ hashes' = res.db.hashes
        /\ call' = Called(op, c.ipRange, c.reason, res.err)
    /\ Alone

\* Client.Reset when the store fails at the round trip at: "flush" is
\* FLUSHDB, after which Reset returns the error, "init" is the batch of
\* c.init(), which runs after FLUSHDB has emptied the database
ResetFailing(at) ==
    /\ \E res \in {IF at = "flush" THEN [db |-> rdb, err |-> "store"]
                    ELSE IF at = "init" THEN [db |-> ExecFailed(FlushDB, init(FlushDB)), err |-> "store"]
                    ELSE [db |-> init(FlushDB), err |-> "nil"]} :
        /\ zset' = res.db.zset
        /\ hashes' = res.db.hashes
        /\ call' = Called("Reset", NoRange, "", res.err)
    /\ Alone

NextFailing ==
    \/ \E op \in QueryOps, at \in {"none", "scores", "hashes", "exec"} :
            \E c \in StepCalls(op) : CallFailing(op, c, at)
    \/ \E at \in {"none", "flush", "init"} : ResetFailing(at)

\* a Client on a store that can fail at every round trip
SpecFailing == Init /\ [][NextFailing]_vars

\* ------------------------------------------------ arguments of any form

\* the strings a caller passes: one address, a range of two addresses in
\* either order, and a string that is neither
InputStrings ==
    {r \in RangeStrings : r.lo <= 2 /\ r.hi <= 2 /\ (r.form = "ip" => r.lo = r.hi)}
        \cup {[form |-> "bad", lo |-> 0, hi |-> 0]}

\* Find(s) or UpdateReasonOf(s, fn): netaddr.NewIPAddress(s, 4) fails on
\* every string that is not one IPv4 address, and the call returns
\* ErrInvalidIP before it makes its boundary
IPCall(op, s) ==
    IF s.form = "ip"
    THEN IF op = "Find" THEN FindCall(s.lo) ELSE \E fn \in UpdateFuncs : UpdateReasonOf(s.lo, fn)
    ELSE /\ UNCHANGED <<zset, hashes>>
         /\ call' = Called(op, s, "", "ErrInvalidIP")
         /\ Alone

NextInputs ==
    \/ \E s \in InputStrings, x \in Reasons : Insert(s, x)
    \/ \E s \in InputStrings : Remove(s)
    \/ \E s \in InputStrings, op \in {"Find", "UpdateReasonOf"} : IPCall(op, s)

\* a constructed Client called with valid and invalid arguments
SpecInputs == Init /\ [][NextInputs]_vars

\* ------------------------------------------------ a Client on a store in use

\* NewClient on the database as it is: the ping, then client.init()
NewClient ==
    /\ zset' = init(rdb).zset
    /\ hashes' = init(rdb).hashes
    /\ call' = Called("NewClient", NoRange, "", "nil")
    /\ Alone

NextInit ==
    \/ \E op \in QueryOps, at \in {"none", "exec"} :
            \E c \in StepCalls(op) : CallFailing(op, c, at)
    \/ \E at \in {"none", "init"} : ResetFailing(at)
    \/ NewClient

\* Clients constructed on a database that holds intervals, or that a Reset
\* left without the sentinels
SpecInit == Init /\ [][NextInit]_vars

\* ------------------------------------------------ the ends of the IPv4 space

\* what the library can make of -1 and of 2^32: an error, on which
\* newBoundary panics, or an IPv4 address, as IPAddress.BigInt() is never
\* negative: the nearest address, the absolute value, or the address at
\* the other end of the space
EdgeLibs ==
    {[edges |-> TRUE, panics |-> TRUE, below |-> 0, above |-> 0]}
        \cup {[edges |-> TRUE, panics |-> FALSE, below |-> b, above |-> a] :
                    b \in {0, 1, LastIP + 1}, a \in {0, LastIP + 1}}

\* the integers low.Below() and high.Above() hand to newBoundary, in
\* vicinity and again in Insert and Remove
Requested(p) == {p.low.Int64 - 1, p.high.Int64 + 1}

\* ranges inside the space and ranges that start at 0.0.0.0 or end at
\* 255.255.255.255
EdgeRanges ==
    LockRanges \cup {OneIP(0), [form |-> "range", lo |-> 0, hi |-> 1],
                     [form |-> "range", lo |-> LastIP, hi |-> LastIP + 1]}

\* Insert(r, x) or Remove(r): newBoundary panics when the library returns
\* an error, which low.Below() meets first, in vicinity
EdgeCall(op, r, x) ==
    /\ \E res \in {IF lib.panics /\ ~(Requested(parseRange(r, x)) \subseteq Addrs)
                    THEN [db |-> rdb, err |-> "panic"]
                    ELSE Whole(op, [ipRange |-> r, reason |-> x], rdb)} :
        /\ zset' = res.db.zset
        /\ hashes' = res.db.hashes
        /\ call' = Called(op, r, x, res.err)
    /\ Alone

NextEdge ==
    \/ \E r \in EdgeRanges, x \in Reasons : EdgeCall("Insert", r, x)
    \/ \E r \in EdgeRanges : EdgeCall("Remove", r, "")

\* a Client whose calls reach both ends of the IPv4 space, for every
\* behaviour of the library there
InitEdge ==
    /\ zset = init(FlushDB).zset
    /\ hashes = init(FlushDB).hashes
    /\ call = Called("NewClient", NoRange, "", "nil")
    /\ AllIdle
    /\ lib \in EdgeLibs

SpecEdge == InitEdge /\ [][NextEdge]_vars

\* ------------------------------------------------ notions of the claims

\* the addresses of the range of the last call
CallRange == call.ipRange.lo .. call.ipRange.hi

Succeeded(op) == call.op = op /\ call.err = "nil"

Found(reason) == [reason |-> reason, err |-> "nil"]

NotFound == [reason |-> "", err |-> "ErrIPNotFound"]

\* the stored boundaries without the sentinels, ascending
NonSentinel(db) == SelectSeq(all(db), LAMBDA b : b.Int64 # NegInf /\ b.Int64 # PosInf)

\* the stored boundaries without the sentinels, as a set
StoredBoundaries(db) == {NonSentinel(db)[i] : i \in 1..Len(NonSentinel(db))}

RECURSIVE Alternates(_, _, _)
\* walking boundaries s in ascending order: open says that a start has not
\* met its end yet, reason is that start's reason
Alternates(s, open, reason) ==
    IF s = <<>> THEN ~open
    ELSE LET b == Head(s)
         IN  IF b.LowerBound /\ b.UpperBound
             THEN ~open /\ Alternates(Tail(s), FALSE, "")
             ELSE IF b.LowerBound
             THEN ~open /\ Alternates(Tail(s), TRUE, b.Reason)
             ELSE IF b.UpperBound
             THEN open /\ b.Reason = reason /\ Alternates(Tail(s), FALSE, "")
             ELSE FALSE

\* P3 of the specification on database db, with the sentinels in place (I1)
Consistent(db) ==
    /\ {NegInf, PosInf} \subseteq db.zset
    /\ db.hashes[NegInf] = HashOf(negInfBoundary)
    /\ db.hashes[PosInf] = HashOf(posInfBoundary)
    /\ Alternates(NonSentinel(db), FALSE, "")

\* ------------------------------------------------ claims

\* what the reference map makes of one call: Insert assigns the reason to
\* every address of the range, Remove and Reset clear, the rest keeps
RefMapStep ==
    \A ip \in Addrs :
        IF call'.op = "Insert" /\ ip \in call'.ipRange.lo .. call'.ipRange.hi
        THEN Find(rdb', ip) = Found(call'.reason)
        ELSE IF call'.op = "Remove" /\ ip \in call'.ipRange.lo .. call'.ipRange.hi
        THEN Find(rdb', ip) = NotFound
        ELSE IF call'.op = "Reset"
        THEN Find(rdb', ip) = NotFound
        ELSE Find(rdb', ip) = Find(rdb, ip)

\* C1: after any sequence of Insert and Remove calls on a Reset engine, Find
\* of every address equals the reference map (last writer wins, Remove
\* clears): Find starts empty, and every call changes Find the way it
\* changes the reference map.
C1_FindEqualsReferenceMap ==
    /\ \A ip \in Addrs : Find(rdb, ip) = NotFound
    /\ [][RefMapStep]_vars

\* C2: after every successful Insert or Remove the non-sentinel boundaries
\* in ascending order strictly alternate start/end, begin with a start, end
\* with an end, and every end carries the reason of its start.
C2_AlternatesAfterEveryCall ==
    (Succeeded("Insert") \/ Succeeded("Remove")) => Alternates(NonSentinel(rdb), FALSE, "")

\* C3: when every Insert uses a reason different from every other Insert's,
\* the store passes the tests' consistency check after each Insert.
C3_ConsistentAfterDistinctInsert ==
    Succeeded("Insert") => consistent(rdb, call.ipRange)

\* a third Insert with a third reason, over more than one address, that left
\* boundaries of all three reasons in the store: it cut into earlier ranges
C3_Witness ==
    /\ Succeeded("Insert") /\ Inserted = 3
    /\ call.ipRange.lo < call.ipRange.hi
    /\ \A n \in 1..3 : \E b \in StoredBoundaries(rdb) : b.Reason = ReasonNames[n]
    /\ consistent(rdb, call.ipRange)

\* C4: immediately after a successful Insert(r, x), Find returns x without
\* error for every address of r.
C4_FindAfterInsert ==
    Succeeded("Insert") => \A ip \in CallRange : Find(rdb, ip) = Found(call.reason)

\* an Insert of more than one address next to an interval of the other
\* reason, found at its first and at its last address
C4_Witness ==
    /\ Succeeded("Insert")
    /\ call.ipRange.lo < call.ipRange.hi
    /\ Find(rdb, call.ipRange.lo) = Found(call.reason)
    /\ Find(rdb, call.ipRange.hi) = Found(call.reason)
    /\ \E x \in Reasons \ {call.reason} : Find(rdb, call.ipRange.hi + 1) = Found(x)

\* C5: immediately after a successful Remove(r), Find returns IPNotFound for
\* every address of r.
C5_NotFoundAfterRemove ==
    Succeeded("Remove") => \A ip \in CallRange : Find(rdb, ip) = NotFound

\* a Remove of more than one address that cut an interval: the address below
\* the range is still found, the addresses of the range are not
C5_Witness ==
    /\ Succeeded("Remove")
    /\ call.ipRange.lo < call.ipRange.hi
    /\ \E x \in Reasons : Find(rdb, call.ipRange.lo - 1) = Found(x)
    /\ \A ip \in CallRange : Find(rdb, ip) = NotFound

\* C6: from a consistent store, Remove(r) leaves Find unchanged for every
\* address outside r.
C6_RemoveKeepsFindOutside ==
    [][(call'.op = "Remove" /\ call'.err = "nil" /\ Consistent(rdb))
        => \A ip \in Addrs \ (call'.ipRange.lo .. call'.ipRange.hi) :
               Find(rdb', ip) = Find(rdb, ip)]_vars

\* the boundaries that store the interval [a, b] with reason x: one double
\* boundary when a = b, a lower and an upper boundary otherwise
IntervalBoundaries(a, b, x) ==
    IF a = b THEN {newBoundary(a, x, TRUE, TRUE)}
    ELSE {newBoundary(a, x, TRUE, FALSE), newBoundary(b, x, FALSE, TRUE)}

\* db stores the interval [a, b] with reason x
StoresInterval(db, a, b, x) ==
    /\ {a, b} \subseteq db.zset
    /\ \A k \in db.zset : ~(a < k /\ k < b)
    /\ IntervalBoundaries(a, b, x) \subseteq StoredBoundaries(db)

\* [L, H] with reason B was put strictly inside the interval [a, b] of db
\* with reason A, which gave db2
Sliced(db, db2, a, b, A, L, H, B) ==
    /\ \A ip \in a..(L - 1) : Find(db2, ip) = Found(A)
    /\ \A ip \in L..H : Find(db2, ip) = Found(B)
    /\ \A ip \in (H + 1)..b : Find(db2, ip) = Found(A)
    /\ StoredBoundaries(db2) =
            (StoredBoundaries(db) \ IntervalBoundaries(a, b, A))
                \cup IntervalBoundaries(a, L - 1, A)
                \cup IntervalBoundaries(L, H, B)
                \cup IntervalBoundaries(H + 1, b, A)

\* C7: from a consistent store, Insert([L, H], B) strictly inside a stored
\* interval [a, b] whose reason A differs from B leaves Find = A on
\* [a, L-1], B on [L, H], A on [H+1, b], and the store holds exactly the
\* intervals [a, L-1] A, [L, H] B, [H+1, b] A in the place of [a, b] A.
C7_InsertSlicesInThree ==
    [][(call'.op = "Insert" /\ call'.err = "nil")
        => \A a \in Addrs, b \in Addrs, A \in Reasons \ {call'.reason} :
               (/\ a < call'.ipRange.lo /\ call'.ipRange.hi < b
                /\ StoresInterval(rdb, a, b, A)
                /\ Consistent(rdb))
                   => Sliced(rdb, rdb', a, b, A, call'.ipRange.lo, call'.ipRange.hi, call'.reason)]_vars

\* after Insert([L, H], B) the store is consistent and holds [a, L-1] A,
\* [L, H] B and [H+1, b] A side by side, the remainder below of more than
\* one address and the remainder above of one
C7_Witness ==
    /\ Succeeded("Insert") /\ Consistent(rdb)
    /\ \E a, b \in Addrs, A \in Reasons \ {call.reason} :
            /\ a < call.ipRange.lo - 1 /\ call.ipRange.hi + 1 = b
            /\ StoresInterval(rdb, a, call.ipRange.lo - 1, A)
            /\ StoresInterval(rdb, call.ipRange.lo, call.ipRange.hi, call.reason)
            /\ StoresInterval(rdb, b, b, A)

\* C8: executing Insert(r, x) once more right after Insert(r, x) leaves the
\* stored boundaries as they are.
C8_InsertTwice ==
    Succeeded("Insert") => InsertResult(rdb, call.ipRange, call.reason).db = rdb

\* C9: executing Remove(r) once more right after Remove(r) leaves the stored
\* boundaries as they are.
C9_RemoveTwice ==
    Succeeded("Remove") => RemoveResult(rdb, call.ipRange).db = rdb

\* C10: for every range r none of whose addresses lies in a stored interval,
\* Insert(r, x) followed by Remove(r) restores the stored boundaries that
\* preceded the Insert.
C10_InsertThenRemoveRestores ==
    \A r \in ValidRanges, x \in Reasons :
        (\A ip \in r.lo .. r.hi : Find(rdb, ip) = NotFound)
            => RemoveResult(InsertResult(rdb, r, x).db, r).db = rdb

\* the same from the consistent stores only, which holds: the round trip
\* fails only on stores that an earlier call left inconsistent
InsertThenRemoveRestoresConsistent ==
    \A r \in ValidRanges, x \in Reasons :
        (Consistent(rdb) /\ \A ip \in r.lo .. r.hi : Find(rdb, ip) = NotFound)
            => RemoveResult(InsertResult(rdb, r, x).db, r).db = rdb

\* what an Insert of a range disjoint from the earlier ones adds to the map
\* from addresses to reasons: its reason on its range, nothing elsewhere
DisjointStep ==
    \A ip \in Addrs :
        IF call'.op = "Insert" /\ ip \in call'.ipRange.lo .. call'.ipRange.hi
        THEN Find(rdb', ip) = Found(call'.reason)
        ELSE IF call'.op = "Reset"
        THEN Find(rdb', ip) = NotFound
        ELSE Find(rdb', ip) = Find(rdb, ip)

\* C11: Inserts with pairwise disjoint ranges give the same Find result for
\* every address in every order: whatever the order, Find starts empty and
\* each Insert adds its reason on its range and changes nothing elsewhere,
\* so Find is the union of the Inserts.
C11_DisjointInsertsCommute ==
    /\ \A ip \in Addrs : Find(rdb, ip).err = "ErrIPNotFound"
    /\ [][DisjointStep]_vars

\* an Insert of more than one address that came last between two ranges of
\* its own reason, touching both
C11_Witness ==
    /\ Succeeded("Insert")
    /\ call.ipRange.lo < call.ipRange.hi
    /\ Find(rdb, call.ipRange.lo - 1) = Found(call.reason)
    /\ Find(rdb, call.ipRange.hi + 1) = Found(call.reason)
    /\ \A ip \in CallRange : Find(rdb, ip) = Found(call.reason)

\* db covers the range r by exactly one stored interval with reason y, and
\* Find returns y on every address of r
CoveredBy(db, r, y) ==
    /\ StoresInterval(db, r.lo, r.hi, y)
    /\ \A ip \in r.lo .. r.hi : Find(db, ip) = Found(y)

\* C12: after Insert(r, x) followed by Insert(r, y) with y different from x,
\* r is covered by exactly one stored interval with reason y (one double
\* boundary when r is a single address) and Find returns y on every
\* address of r.
C12_ReinsertReplacesReason ==
    Succeeded("Insert") =>
        \A y \in Reasons \ {call.reason} :
            \A r \in {q \in ValidRanges : q.lo = call.ipRange.lo /\ q.hi = call.ipRange.hi} :
                /\ InsertResult(rdb, r, y).err = "nil"
                /\ CoveredBy(InsertResult(rdb, r, y).db, r, y)

\* the second of two Inserts of one range of more than one address with
\* different reasons, the range lying between intervals of both reasons
C12_Witness ==
    /\ Succeeded("Insert")
    /\ call.ipRange.lo < call.ipRange.hi
    /\ CoveredBy(rdb, call.ipRange, call.reason)
    /\ \E x \in Reasons \ {call.reason} :
            /\ InsertResult(rdb, call.ipRange, x).db # rdb
            /\ InsertResult(InsertResult(rdb, call.ipRange, x).db, call.ipRange, call.reason).db = rdb
            /\ Find(rdb, call.ipRange.lo - 1) = Found(x)
            /\ Find(rdb, call.ipRange.hi + 1) = Found(call.reason)

\* ip lies in an interval that db stores with reason x
InInterval(db, ip, x) ==
    \E a \in Addrs, b \in Addrs : a <= ip /\ ip <= b /\ StoresInterval(db, a, b, x)

\* C13: in every store that satisfies I1-I4, Find(ip) returns reason R if and
\* only if ip lies in a stored interval with reason R, returns IPNotFound
\* for every other address, and never returns a sentinel's reason.
C13_FindIffInInterval ==
    Consistent(rdb) =>
        \A ip \in Addrs :
            /\ \A x \in Reasons : (Find(rdb, ip) = Found(x)) <=> InInterval(rdb, ip, x)
            /\ (Find(rdb, ip) = NotFound) <=> ~(\E x \in Reasons : InInterval(rdb, ip, x))
            /\ Find(rdb, ip).reason \notin {negInfBoundary.Reason, posInfBoundary.Reason}

\* Find returned a reason for an interior address of an interval of a
\* consistent store that also holds a one-address interval
C13_Witness ==
    /\ Succeeded("Find") /\ Consistent(rdb)
    /\ \E a \in Addrs, b \in Addrs :
            /\ a < call.ipRange.lo /\ call.ipRange.lo < b
            /\ StoresInterval(rdb, a, b, call.reason)
    /\ \E c \in Addrs, x \in Reasons : StoresInterval(rdb, c, c, x)

\* C14: after a successful UpdateReasonOf(ip, fn) where ip lies in a stored
\* interval [a, b] with reason R, both endpoint boundaries of the interval
\* carry fn(R) and Find returns fn(R) for every address of the interval.
C14_UpdateRewritesBothEndpoints ==
    [][(call'.op = "UpdateReasonOf" /\ call'.err = "nil")
        => \A a \in Addrs, b \in Addrs, R \in Reasons :
               (/\ a <= call'.ipRange.lo /\ call'.ipRange.lo <= b
                /\ StoresInterval(rdb, a, b, R))
                   => /\ StoresInterval(rdb', a, b, ApplyFn(call'.reason, R))
                      /\ \A ip \in a..b : Find(rdb', ip) = Found(ApplyFn(call'.reason, R))]_vars

\* ip lies in no interval that db stores
InNoInterval(db, ip) == \A x \in Reasons : ~InInterval(db, ip, x)

C16_RemoveOfNothingChangesNothing ==
    \A r \in ValidRanges :
        (\A ip \in r.lo .. r.hi : Find(rdb, ip) = NotFound)
            => RemoveResult(rdb, r) = [db |-> rdb, err |-> "nil"]

\* the same from the consistent stores only, which holds
RemoveOfNothingConsistent ==
    \A r \in ValidRanges :
        (Consistent(rdb) /\ \A ip \in r.lo .. r.hi : InNoInterval(rdb, ip))
            => RemoveResult(rdb, r) = [db |-> rdb, err |-> "nil"]

\* C17: an operation that detects inconsistent stored data returns the
\* DatabaseInconsistent error as a value and does not abort the process:
\* no call ends in a panic.
C17_InconsistencyIsAnErrorValue ==
    call.err # "panic"

\* C18: in every state reachable by Insert, Remove, UpdateReasonOf, Find and
\* Reset the sentinel -inf is stored with upper set and lower unset and +inf
\* with lower set and upper unset, both as init wrote them.
C18_SentinelsStay ==
    /\ {NegInf, PosInf} \subseteq zset
    /\ hashes[NegInf] = HashOf(negInfBoundary)
    /\ hashes[PosInf] = HashOf(posInfBoundary)

\* UpdateReasonOf rewrote an interval that reaches from the first to the
\* last address of the window, its nearest neighbours being the sentinels
C18_Witness ==
    /\ Succeeded("UpdateReasonOf")
    /\ \E x \in Reasons : StoresInterval(rdb, 1, LastUpdateIP, x)
    /\ C18_SentinelsStay

\* C19: in every reachable state no stored boundary has both the lower and
\* the upper flag unset.
C19_NoBoundaryWithoutFlag ==
    \A k \in Keys :
        hashes[k] # Nil => ~(hashes[k].low = "0" /\ hashes[k].high = "0")

\* an Insert cut an interval of another reason one address below its range:
\* the boundary there was made by Below() and flagged afterwards
C19_Witness ==
    /\ Succeeded("Insert")
    /\ \E a \in Addrs, x \in Reasons \ {call.reason} :
            /\ a < call.ipRange.lo - 1
            /\ StoresInterval(rdb, a, call.ipRange.lo - 1, x)
    /\ C19_NoBoundaryWithoutFlag

\* C20: within one Client no two of Insert, Remove, Reset, Flush and
\* UpdateReasonOf, and none of them together with a Find, are between
\* acquiring the lock and releasing it at the same time; several Finds
\* can be (C20_Witness)
C20_MutatorsHoldLockAlone ==
    \A g \in Goroutines :
        holding[g] \in LockOps \ {"Find"} =>
            \A other \in Goroutines \ {g} : holding[other] = "idle"

\* two goroutines are inside Find together
C20_Witness ==
    \E g \in Goroutines :
        \E other \in Goroutines \ {g} :
            holding[g] = "Find" /\ holding[other] = "Find"

\* goroutine g runs its batch in this step
Commits(g) == pending[g] # Nil /\ pending'[g] = Nil

\* C21: for mutating operations called concurrently on one Client, the
\* store the batch of an operation meets is the store its vicinity query
\* read, so every batch leaves what the whole operation run alone at that
\* moment leaves: the final store is that of the operations run one after
\* another in the order of their batches.
C21_BatchesAreSerial ==
    [][\A g \in Goroutines :
            Commits(g) =>
                /\ vicinity(rdb, pending[g].p.low, pending[g].p.high, 1) = pending[g].v
                /\ rdb' = Whole(pending[g].op, pending[g].c, rdb).db]_vars

\* a goroutine is between the vicinity query and the batch of a Remove that
\* found a boundary inside its range, after the Insert of another call
C21_Witness ==
    /\ Succeeded("Insert")
    /\ \E g \in Goroutines :
            /\ pending[g] # Nil
            /\ pending[g].op = "Remove"
            /\ Len(pending[g].v.inside) > 0

\* C22: a Find of a second Client on the same store, run while a single
\* writer executes an Insert or a Remove, returns what Find returned before
\* the writer's batch or what it returns after it, never a third outcome.
C22_ReaderSeesBeforeOrAfter ==
    [][(pending[Reader] # Nil /\ pending'[Reader] = Nil)
        => [reason |-> call'.reason, err |-> call'.err]
                \in {pending[Reader].before, Find(rdb, pending[Reader].ip)}]_vars

C24_ResetAllOrNothing ==
    [][call'.op = "Reset"
        => \/ call'.err = "nil" /\ rdb' = init(FlushDB)
           \/ call'.err # "nil" /\ rdb' = rdb]_vars

C26_InitIsIdempotent ==
    [][call'.op = "NewClient" =>
        /\ zset' \ {NegInf, PosInf} = zset \ {NegInf, PosInf}
        /\ \A k \in Keys \ {NegInf, PosInf} : hashes'[k] = hashes[k]
        /\ {NegInf, PosInf} \subseteq zset'
        /\ hashes'[NegInf] = HashOf(negInfBoundary)
        /\ hashes'[PosInf] = HashOf(posInfBoundary)
        /\ ({NegInf, PosInf} \subseteq zset => rdb' = rdb)
        /\ init(rdb') = rdb']_vars

\* a Client was constructed on a store that holds an interval of two
\* addresses, and the interval is still there
C26_Witness ==
    /\ call.op = "NewClient"
    /\ StoresInterval(rdb, 1, 2, "B")

\* C27: Insert or Remove of a range that starts at address 0 or ends at
\* address 2^32-1 never requests or stores a boundary outside 0..2^32-1,
\* and on a consistent store it completes and leaves a consistent store.
C27_EdgesNeedNoCut ==
    [][(/\ call'.op \in {"Insert", "Remove"}
        /\ (call'.ipRange.lo = 0 \/ call'.ipRange.hi = LastIP + 1)
        /\ Consistent(rdb))
            => /\ Requested(parseRange(call'.ipRange, call'.reason)) \subseteq Addrs
               /\ zset' \subseteq Keys
               /\ call'.err = "nil"
               /\ Consistent(rdb')]_vars

\* db2 holds the addresses lo .. hi in one interval with reason x: Find
\* returns x on all of them and no boundary is stored between lo and hi
OneInterval(db2, lo, hi, x) ==
    /\ \A k \in db2.zset : ~(lo < k /\ k < hi)
    /\ \A ip \in lo..hi : Find(db2, ip) = Found(x)

\* Insert(r, x) met the stored interval [a, b] of reason x in the step
MergesWith(a, b) ==
    /\ a <= call'.ipRange.hi /\ call'.ipRange.lo <= b
    /\ StoresInterval(rdb, a, b, call'.reason)

\* C28: from a consistent store, Insert(r, x) where r overlaps, contains
\* or lies inside a stored interval of reason x leaves a consistent store
\* in which the union of r and that interval is one interval of reason x.
C28_InsertMergesSameReason ==
    [][(call'.op = "Insert" /\ call'.err = "nil")
        => \A a \in Addrs, b \in Addrs :
               (a <= b /\ MergesWith(a, b) /\ Consistent(rdb))
                   => /\ Consistent(rdb')
                      /\ OneInterval(rdb',
                                      IF a < call'.ipRange.lo THEN a ELSE call'.ipRange.lo,
                                      IF b > call'.ipRange.hi THEN b ELSE call'.ipRange.hi,
                                      call'.reason)]_vars

\* db stores at address k a boundary that carries the flag of side
\* ("low" or "high")
HasBound(db, k, side) == k \in db.zset /\ db.hashes[k][side] = BoolArg(TRUE)

\* C29: when Insert([L, H], x) finds a double boundary of reason x at L-1,
\* it becomes a single lower bound starting one interval [L-1, H] of
\* reason x and no lower bound is stored at L; a double of reason x at H+1
\* becomes the single upper bound of [L, H+1] and no upper bound is stored
\* at H.
C29_SameReasonDoubleIsDemoted ==
    [][(call'.op = "Insert" /\ call'.err = "nil" /\ Consistent(rdb))
        => LET L == call'.ipRange.lo
               H == call'.ipRange.hi
               x == call'.reason
           IN  /\ StoresInterval(rdb, L - 1, L - 1, x)
                    => /\ newBoundary(L - 1, x, TRUE, FALSE) \in StoredBoundaries(rdb')
                       /\ ~HasBound(rdb', L, "low")
                       /\ OneInterval(rdb', L - 1, H, x)
               /\ StoresInterval(rdb, H + 1, H + 1, x)
                    => /\ newBoundary(H + 1, x, FALSE, TRUE) \in StoredBoundaries(rdb')
                       /\ ~HasBound(rdb', H, "high")
                       /\ OneInterval(rdb', L, H + 1, x)]_vars

\* db stores at address k exactly the boundary with these flags and reason
StoresAt(db, k, y, lower, upper) ==
    k \in db.zset /\ db.hashes[k] = HashOf(newBoundary(k, y, lower, upper))

\* C30: when Insert or Remove of [L, H] finds a single lower bound at
\* exactly L-1 (for Insert: of a reason other than the new one), the call
\* leaves a double boundary of the same reason there and no cut record;
\* a single upper bound at exactly H+1 likewise becomes a double boundary
\* keeping its reason.
C30_NeighbourIsPromoted ==
    [][(call'.op \in {"Insert", "Remove"} /\ call'.err = "nil")
        => \A y \in Reasons :
               (call'.op = "Insert" => y # call'.reason)
                   => /\ StoresAt(rdb, call'.ipRange.lo - 1, y, TRUE, FALSE)
                            => StoresAt(rdb', call'.ipRange.lo - 1, y, TRUE, TRUE)
                      /\ StoresAt(rdb, call'.ipRange.hi + 1, y, FALSE, TRUE)
                            => StoresAt(rdb', call'.ipRange.hi + 1, y, TRUE, TRUE)]_vars

\* a store with a lower bound of reason "A" one address below and an upper
\* bound of reason "A" one address above the range [2, 2], on which
\* Remove and Insert with reason "B" promote both
C30_Witness ==
    LET r == OneIP(2)
    IN  /\ StoresAt(rdb, 1, "A", TRUE, FALSE)
        /\ StoresAt(rdb, 3, "A", FALSE, TRUE)
        /\ \A after \in {RemoveResult(rdb, r).db, InsertResult(rdb, r, "B").db} :
                /\ StoresAt(after, 1, "A", TRUE, TRUE)
                /\ StoresAt(after, 3, "A", TRUE, TRUE)

\* insertLowerBound and insertUpperBound as Insert of the parsed range p
\* has them on database db when it reaches the endpoint block
InsertFlags(db, p) ==
    LET v == vicinity(db, p.low, p.high, 1)
    IN  [lower |-> InsertBelow(v.below[1], InsertBelowCut(p.low, v.below[1]), p.low).insertLowerBound,
         upper |-> InsertAbove(v.above[1], InsertAboveCut(p.high, v.above[1]), p.high).insertUpperBound]

\* C31: a single-address Insert stores a double boundary at its address
\* only when both the lower and the upper bound are to be inserted; when a
\* same-reason merge suppresses one of them, the record written there
\* carries the remaining flag alone.
C31_DoubleOnlyWhenBothInserted ==
    [][(call'.op = "Insert" /\ call'.err = "nil" /\ call'.ipRange.form = "ip")
        => LET f == InsertFlags(rdb, parseRange(call'.ipRange, call'.reason))
               L == call'.ipRange.lo
               x == call'.reason
           IN  /\ (f.lower /\ f.upper) => StoresAt(rdb', L, x, TRUE, TRUE)
               /\ (f.lower /\ ~f.upper) => StoresAt(rdb', L, x, TRUE, FALSE)
               /\ (~f.lower /\ f.upper) => StoresAt(rdb', L, x, FALSE, TRUE)]_vars

\* C32: after a successful Insert([L, H], x) every stored boundary with
\* L <= ip <= H is at L or at H and carries reason x; after a successful
\* Remove([L, H]) no stored boundary has L <= ip <= H; every interval
\* that was fully contained in [L, H] has vanished.
C32_InsideIsReplaced ==
    [][(call'.op \in {"Insert", "Remove"} /\ call'.err = "nil")
        => LET L == call'.ipRange.lo
               H == call'.ipRange.hi
               Held(db, a, b, y) ==
                    /\ \A k \in db.zset : ~(a < k /\ k < b)
                    /\ IF a = b THEN StoresAt(db, a, y, TRUE, TRUE)
                       ELSE StoresAt(db, a, y, TRUE, FALSE) /\ StoresAt(db, b, y, FALSE, TRUE)
           IN  /\ \A k \in zset' \cap (L..H) :
                       /\ call'.op = "Insert"
                       /\ k \in {L, H}
                       /\ hashes'[k].reason = call'.reason
               /\ \A a \in L..H, b \in L..H, y \in Reasons :
                       (a <= b /\ Held(rdb, a, b, y) /\ Held(rdb', a, b, y))
                           => /\ call'.op = "Insert"
                              /\ a = L /\ b = H /\ y = call'.reason]_vars

\* a store with the interval [2, 3] inside the range [1, 4], of which
\* Remove leaves no boundary in the range and Insert with another reason
\* only its own two endpoints
C32_Witness ==
    LET r == [form |-> "range", lo |-> 1, hi |-> LastIP]
    IN  /\ StoresInterval(rdb, 2, 3, "A")
        /\ RemoveResult(rdb, r).db.zset \cap (1..LastIP) = {}
        /\ InsertResult(rdb, r, "B").db.zset \cap (1..LastIP) = {1, LastIP}

\* C33: after Insert([L, H], x) with x different from the reasons of the
\* nearest stored boundaries below L and above H, a boundary with the
\* lower flag is stored at L and a boundary with the upper flag at H, both
\* with reason x.
C33_EndpointsStored ==
    [][(call'.op = "Insert" /\ call'.err = "nil")
        => LET L == call'.ipRange.lo
               H == call'.ipRange.hi
               x == call'.reason
               belowNearest == {k \in zset : k < L /\ \A j \in zset : j < L => j <= k}
               aboveNearest == {k \in zset : k > H /\ \A j \in zset : j > H => j >= k}
           IN  (\A k \in belowNearest \cup aboveNearest : hashes[k].reason # x)
                  => /\ HasBound(rdb', L, "low") /\ hashes'[L].reason = x
                     /\ HasBound(rdb', H, "high") /\ hashes'[H].reason = x]_vars

\* a store whose interval [1, LastIP] of reason "A" surrounds the range
\* [2, 3], in which Insert with reason "B" stores a lower bound at 2 and an
\* upper bound at 3
C33_Witness ==
    LET after == InsertResult(rdb, [form |-> "range", lo |-> 2, hi |-> 3], "B").db
    IN  /\ StoresInterval(rdb, 1, LastIP, "A")
        /\ StoresAt(after, 2, "B", TRUE, FALSE)
        /\ StoresAt(after, 3, "B", FALSE, TRUE)

\* list s holds, ascending and each with its stored flags and reason, the
\* boundaries of db at the addresses keys
ListsStored(db, s, keys) ==
    /\ Len(s) = Cardinality(keys)
    /\ \A i \in 1..Len(s) :
            /\ s[i].Int64 \in keys
            /\ HashOf(s[i]) = db.hashes[s[i].Int64]
            /\ \A j \in (i + 1)..Len(s) : s[i].Int64 < s[j].Int64

\* near is made of the n members of side that are nearest to the range,
\* or of all of side if it has fewer
NearestOf(near, side, n, lo, hi) ==
    /\ near \subseteq side
    /\ Cardinality(near) = IF Cardinality(side) < n THEN Cardinality(side) ELSE n
    /\ \A k \in near, other \in side \ near :
            IF k < lo THEN other < k ELSE other > k

FlagState(h) ==
    IF h.low = BoolArg(TRUE) /\ h.high = BoolArg(TRUE) THEN "double"
    ELSE IF h.low = BoolArg(TRUE) THEN "single-lower"
    ELSE IF h.high = BoolArg(TRUE) THEN "single-upper"
    ELSE "none"

\* C35: outside [L, H] the only changes Insert or Remove of [L, H] makes
\* to an already stored boundary are single-lower to double, single-upper
\* to double, double to single-lower and double to single-upper, only at
\* L-1 or H+1 and without changing its reason; a single-lower never
\* becomes a single-upper or the reverse.
C35_FlagTransitions ==
    [][(call'.op \in {"Insert", "Remove"} /\ call'.err = "nil")
        => \A k \in (zset \cap zset') \ (call'.ipRange.lo..call'.ipRange.hi) :
               hashes'[k] # hashes[k]
                   => /\ k \in {call'.ipRange.lo - 1, call'.ipRange.hi + 1}
                      /\ hashes'[k].reason = hashes[k].reason
                      /\ <<FlagState(hashes[k]), FlagState(hashes'[k])>> \in
                            {<<"single-lower", "double">>, <<"single-upper", "double">>,
                             <<"double", "single-lower">>, <<"double", "single-upper">>}]_vars

\* a store with a double boundary of reason "A" at 1 and an upper bound of
\* reason "B" at 3, in which Insert of the address 2 with reason "A"
\* demotes the first and promotes the second
C35_Witness ==
    LET after == InsertResult(rdb, OneIP(2), "A").db
    IN  /\ StoresAt(rdb, 1, "A", TRUE, TRUE)
        /\ StoresAt(rdb, 3, "B", FALSE, TRUE)
        /\ StoresAt(after, 1, "A", TRUE, FALSE)
        /\ StoresAt(after, 3, "B", TRUE, TRUE)

\* the batch Insert (or Remove) of the parsed range p queues on database
\* db, and the cut records it computes
Queued(db, op, p) ==
    LET v == vicinity(db, p.low, p.high, 1)
    IN  IF op = "Insert"
        THEN [tx   |-> InsertTx(v.inside, v.below[1], v.above[1], p.low, p.high),
              cuts |-> {InsertCmd(InsertBelowCut(p.low, v.below[1])),
                        InsertCmd(InsertAboveCut(p.high, v.above[1]))}]
        ELSE [tx   |-> RemoveTx(v.inside, v.below[1], v.above[1], p.low, p.high),
              cuts |-> {InsertCmd(RemoveBelowCut(p.low, v.below[1])),
                        InsertCmd(RemoveAboveCut(p.high, v.above[1]))}]

\* C36: Insert and Remove of [L, H] leave every stored boundary with
\* ip < L-1 or ip > H+1 unchanged: all their writes fall in [L-1, H+1],
\* and a cut record is written at L-1 or H+1 only when no boundary is
\* stored there.
C36_WritesStayInNeighbourhood ==
    [][(call'.op \in {"Insert", "Remove"} /\ call'.err = "nil")
        => LET L == call'.ipRange.lo
               H == call'.ipRange.hi
           IN  /\ \A k \in zset \cup zset' :
                       (k < L - 1 \/ k > H + 1)
                           => k \in zset \cap zset' /\ hashes'[k] = hashes[k]
               /\ \A q \in {Queued(rdb, call'.op, parseRange(call'.ipRange, call'.reason))} :
                       \A c \in {q.tx[i] : i \in 1..Len(q.tx)} :
                           /\ L - 1 <= c.b.Int64 /\ c.b.Int64 <= H + 1
                           /\ c \in q.cuts => c.b.Int64 \notin zset]_vars

\* a store holding [1, LastIP] with reason "A", in which Remove of the
\* address 3 writes a cut at 2, where nothing was stored, and leaves the
\* lower bound at 1 as it was
C36_Witness ==
    LET after == RemoveResult(rdb, OneIP(3)).db
    IN  /\ StoresInterval(rdb, 1, LastIP, "A")
        /\ StoresAt(after, 1, "A", TRUE, FALSE)
        /\ StoresAt(after, 2, "A", FALSE, TRUE)

\* C37: UpdateReasonOf changes nothing but the reason fields of the two
\* endpoint boundaries (or the one double boundary) of the interval that
\* contains ip: no boundary is created or removed, no flag changes, and
\* the reason of every other interval stays.
C37_UpdateRewritesEndpointsOnly ==
    [][(call'.op = "UpdateReasonOf" /\ call'.err = "nil")
        => LET ip == call'.ipRange.lo
           IN  /\ zset' = zset
               /\ \A k \in zset :
                       /\ FlagState(hashes'[k]) = FlagState(hashes[k])
                       /\ hashes'[k].reason # hashes[k].reason
                            => /\ \A j \in zset : ~(k < j /\ j < ip) /\ ~(ip < j /\ j < k)
                               /\ k < ip => FlagState(hashes[k]) = "single-lower"
                               /\ k > ip => FlagState(hashes[k]) = "single-upper"]_vars

\* a store holding [1, 2] and [3, 3] with reason "A", in which
\* UpdateReasonOf of the address 2 gives [1, 2] the reason "B" and leaves
\* [3, 3] as it was
C37_Witness ==
    LET after == UpdateResult(rdb, 2, "always B").db
    IN  /\ StoresInterval(rdb, 1, 2, "A")
        /\ StoresAt(rdb, 3, "A", TRUE, TRUE)
        /\ StoresInterval(after, 1, 2, "B")
        /\ StoresAt(after, 3, "A", TRUE, TRUE)

\* C38: within the batch of one Insert the removals of all inside
\* boundaries are queued before every insert, so a boundary at L or H that
\* is removed as an inside boundary and inserted again as a new endpoint
\* is stored after the batch commits, with the new flags and reason.
C38_RemovalsBeforeInserts ==
    [][(call'.op = "Insert" /\ call'.err = "nil")
        => \A q \in {Queued(rdb, "Insert", parseRange(call'.ipRange, call'.reason))} :
               \A i \in 1..Len(q.tx), j \in 1..Len(q.tx) :
                   (q.tx[i].cmd = "Remove" /\ q.tx[j].cmd = "Insert")
                       => /\ i < j
                          /\ q.tx[i].b.Int64 = q.tx[j].b.Int64
                                => /\ q.tx[j].b.Int64 \in {call'.ipRange.lo, call'.ipRange.hi}
                                   /\ q.tx[j].b.Int64 \in zset'
                                   /\ hashes'[q.tx[j].b.Int64] = HashOf(q.tx[j].b)
                                   /\ hashes'[q.tx[j].b.Int64].reason = call'.reason]_vars

\* a store holding [2, 3] with reason "A", in which Insert of [2, 3] with
\* reason "B" removes both boundaries and stores them again with "B"
C38_Witness ==
    /\ StoresInterval(rdb, 2, 3, "A")
    /\ StoresInterval(InsertResult(rdb, [form |-> "range", lo |-> 2, hi |-> 3], "B").db, 2, 3, "B")

\* C39: no sequence of Insert, Remove, UpdateReasonOf (with any update
\* function) and Find calls with valid arguments on a Reset engine reaches
\* one of the abort branches ("reasons inconsistent", "database
\* inconsistent", "database reasons inconsistent", "invalid boundary
\* state").
C39_NoAbortBranchReached ==
    [][call'.op \in {"Insert", "Remove", "UpdateReasonOf", "Find"}
            => call'.err # "panic"]_vars

\* mu counts exactly the goroutines that are inside an operation
LockAccounted ==
    /\ mu.writer = (\E g \in Goroutines : holding[g] \in LockOps \ {"Find"})
    /\ mu.readers = Cardinality({g \in Goroutines : holding[g] = "Find"})

\* C40: every public operation releases the Client lock on every exit
\* path (success, input error, store error, abort), so the lock is held
\* only by operations that have not returned, and, given a store that
\* answers every call, every invoked operation eventually acquires the
\* lock and completes.
C40_LockIsReleasedAndAcquired ==
    /\ []LockAccounted
    /\ \A g \in Goroutines :
            /\ (pending[g] # Nil) ~> (holding[g] # "idle")
            /\ (holding[g] # "idle") ~> (holding[g] = "idle")

\* an operation has returned on an error or abort path, the lock is free,
\* and a goroutine that was blocked meanwhile is about to acquire it
C40_Witness ==
    /\ call.err \in {"panic", "store", "ErrInvalidRange", "ErrInvalidIP"}
    /\ mu = Unlocked
    /\ \E g \in Goroutines : pending[g] # Nil

====
